---- MODULE Spec2Model ----
(***************************************************************************)
(* Odysseus: the candidate evaluation and execution pipeline.              *)
(*                                                                         *)
(* One run is either the command line entry point (src/main.py: parse the  *)
(* flags, collect_candidates, process_candidates) or a direct call of      *)
(* process_candidates(candidates, paper=...).  The collaborators (the      *)
(* discovery source, the risk service, the quote, swap-build and broadcast *)
(* endpoints, the signer) answer nondeterministically.  A Python dict is a *)
(* TLA+ function whose DOMAIN is the set of keys present; a raised         *)
(* exception that nothing catches ends the run in pc = "failed".           *)
(*                                                                         *)
(* Floats with one decimal (percentages, SOL liquidity) are kept in        *)
(* tenths; USD amounts are whole dollars.                                  *)
(***************************************************************************)
EXTENDS Integers, Sequences, FiniteSets, TLC

(***************************************************************************)
(* Bounds of the model.                                                    *)
(***************************************************************************)
\* Longest batch of candidates (and longest discovery response) explored.
MaxCands == 2
\* Largest test-buy and max-position size a direct call of decide is given.
MaxSize == 4
\* Most flags in a risk summary a direct call of hard_filters_pass is given.
MaxFlags == 2

(***************************************************************************)
(* Settings (src/config.py) and other program constants.                   *)
(***************************************************************************)
\* MIN_LIQ_SOL = 5.0, in tenths of a SOL.
MIN_LIQ_SOL == 50
\* MAX_TOP5_PCT = 45.0, in tenths of a percent.
MAX_TOP5_PCT == 450
\* TEST_BUY_USD = 3.0
TEST_BUY_USD == 3
\* MAX_POSITION_USD = 10.0
MAX_POSITION_USD == 10
LAMPORTS_PER_SOL == 1000000000
\* The stubbed TokenInfo of process_candidates: top5_pct = 32.1 (tenths).
STUB_TOP5_PCT == 321
\* The stubbed TokenInfo of process_candidates: liquidity_sol = 8.4 (tenths).
STUB_LIQUIDITY_SOL == 84
\* for item in data[:10]
PER_CYCLE_LIMIT == 10

SOL_MINT == "So11111111111111111111111111111111111111112"
STUB_MINT == "SoMeToKenMinTAddR1111111111111111111111111"

(***************************************************************************)
(* Python values.                                                          *)
(***************************************************************************)
None == [py_none |-> TRUE]
EmptyDict == <<>>
\* An unset optional setting (None, or the empty string: both are falsy).
Unset == ""

Max(a, b) == IF a >= b THEN a ELSE b
Min(a, b) == IF a <= b THEN a ELSE b

\* dict.get(key, default)
DictGet(d, key, default) == IF key \in DOMAIN d THEN d[key] ELSE default

\* The outcome of a call: a returned value, or a raised exception.
Return(v) == [exc |-> "", value |-> v]
Raise(e) == [exc |-> e, value |-> None]

\* The decimal strings the quote service's amounts are drawn from, and int()
\* of each; int() of any other string raises ValueError.
IntStrings == {"-1", "0", "7"}
PyInt(s) == CASE s = "-1" -> -1
              [] s = "0" -> 0
              [] s = "7" -> 7
              [] OTHER -> 0

\* str.lower on the flag vocabulary of the model.
Lower(s) == CASE s = "HONEYPOT" -> "honeypot"
              [] s = "Honeypot" -> "honeypot"
              [] s = "BlackList" -> "blacklist"
              [] s = "Trading_Disabled" -> "trading_disabled"
              [] s = "MUTABLE" -> "mutable"
              [] OTHER -> s

(***************************************************************************)
(* src/risk.py                                                             *)
(***************************************************************************)
BadFlags == {"honeypot", "blacklist", "trading_disabled"}
AcceptedRisk == {"low", "medium"}

\* Mutant of hard_filters_pass: the flags are compared as given (no str.lower).
hard_filters_pass_CaseSensitive(info, rc_summary, max_top5, min_liq) ==
    IF ~(info.mint_revoked /\ info.freeze_revoked) THEN FALSE
    ELSE IF info.top5_pct > max_top5 THEN FALSE
    ELSE IF info.liquidity_sol < min_liq THEN FALSE
    ELSE IF DictGet(rc_summary, "risk_level", "high") \notin AcceptedRisk THEN FALSE
    ELSE IF DictGet(rc_summary, "flags", {}) \cap BadFlags # {} THEN FALSE
    ELSE TRUE

\* Mutant of hard_filters_pass: the concentration limit is exclusive (>= for >).
hard_filters_pass_ExclusiveTop5(info, rc_summary, max_top5, min_liq) ==
    IF ~(info.mint_revoked /\ info.freeze_revoked) THEN FALSE
    ELSE IF info.top5_pct >= max_top5 THEN FALSE
    ELSE IF info.liquidity_sol < min_liq THEN FALSE
    ELSE IF DictGet(rc_summary, "risk_level", "high") \notin AcceptedRisk THEN FALSE
    ELSE IF {Lower(f) : f \in DictGet(rc_summary, "flags", {})} \cap BadFlags # {}
         THEN FALSE
    ELSE TRUE

hard_filters_pass(info, rc_summary, max_top5, min_liq) ==
    IF ~(info.mint_revoked /\ info.freeze_revoked) THEN FALSE
    ELSE IF info.top5_pct > max_top5 THEN FALSE
    ELSE IF info.liquidity_sol < min_liq THEN FALSE
    ELSE IF DictGet(rc_summary, "risk_level", "high") \notin AcceptedRisk THEN FALSE
    ELSE IF {Lower(f) : f \in DictGet(rc_summary, "flags", {})} \cap BadFlags # {}
         THEN FALSE
    ELSE TRUE

(***************************************************************************)
(* src/strategy/basic.py                                                   *)
(***************************************************************************)
Decision(should_test_buy, target_usd) ==
    [should_test_buy |-> should_test_buy, target_usd |-> target_usd]

\* Mutant of decide: the simulation gates the pre-graduation test buy too.
decide_SimulationGatesAll(test_buy_usd, max_position_usd, graduated, sell_sim_ok) ==
    IF ~sell_sim_ok THEN Decision(FALSE, 0)
    ELSE IF ~graduated THEN Decision(TRUE, test_buy_usd)
    ELSE Decision(TRUE, max_position_usd)

decide(test_buy_usd, max_position_usd, graduated, sell_sim_ok) ==
    IF ~graduated THEN Decision(TRUE, test_buy_usd)
    ELSE IF sell_sim_ok THEN Decision(TRUE, max_position_usd)
    ELSE Decision(FALSE, 0)

(***************************************************************************)
(* src/providers/jupiter.py and the sizing heuristic of src/executor.py    *)
(***************************************************************************)
\* int(max(1, usd_amount) * 0.01 * LAMPORTS_PER_SOL), then the 0.001 SOL floor.
LamportsFor(usd_amount) ==
    Max(Max(1, usd_amount) * (LAMPORTS_PER_SOL \div 100), LAMPORTS_PER_SOL \div 1000)

\* What the quote endpoint may do with one GET /v6/quote.
QuoteBodies ==
    {EmptyDict, [routePlan |-> "r"]}
    \cup {[outAmount |-> a, routePlan |-> "r"] : a \in IntStrings \cup {"abc"}}
QuoteResponses ==
    {[net |-> n, status |-> 0, parses |-> FALSE, json |-> EmptyDict] :
        n \in {"TimeoutException", "ConnectError"}}
    \cup {[net |-> "ok", status |-> 500, parses |-> FALSE, json |-> EmptyDict],
          [net |-> "ok", status |-> 200, parses |-> FALSE, json |-> EmptyDict]}
    \cup {[net |-> "ok", status |-> 200, parses |-> TRUE, json |-> b] : b \in QuoteBodies}

\* quote(): the transport's exception and r.json()'s are not caught.
quote(resp) ==
    IF resp.net # "ok" THEN Raise(resp.net)
    ELSE IF resp.status = 200
         THEN (IF resp.parses THEN Return(resp.json) ELSE Raise("JSONDecodeError"))
         ELSE Return(None)

\* Mutant of QuoteRejected: a zero outAmount is let through (< for <=).
QuoteRejected_ZeroAccepted(q) ==
    IF q = None \/ q = EmptyDict THEN Return(TRUE)
    ELSE IF "outAmount" \notin DOMAIN q THEN Return(TRUE)
    ELSE IF q.outAmount \notin IntStrings THEN Raise("ValueError")
    ELSE Return(PyInt(q.outAmount) < 0)

\* not q or int(q.get("outAmount", 0)) <= 0, which raises when int() does.
QuoteRejected(q) ==
    IF q = None \/ q = EmptyDict THEN Return(TRUE)
    ELSE IF "outAmount" \notin DOMAIN q THEN Return(TRUE)
    ELSE IF q.outAmount \notin IntStrings THEN Raise("ValueError")
    ELSE Return(PyInt(q.outAmount) <= 0)

(***************************************************************************)
(* The state of one run.                                                   *)
(***************************************************************************)
VARIABLES
    settings,     \* src/config.py: the credentials and endpoints that are optional
    entry,        \* "" | "main" | "direct" | "execute": what the run called
    args,         \* the parsed command line flags (main.py)
    paper,        \* process_candidates' paper argument
    candidates,   \* the batch
    rc_bulk,      \* the bulk risk summary of the batch
    pc,           \* the position of the run
    k,            \* candidates[k] is the candidate of the current iteration
    q_buy,        \* simulate_buy_sell's forward quote
    sell_sim_ok,  \* process_candidates' sell_sim_ok
    token_mint,   \* execute_trade's token_mint
    usd_amount,   \* execute_trade's usd_amount
    q,            \* execute_trade's quote
    swap_b64,     \* execute_trade's unsigned transaction
    raw_b64,      \* execute_trade's signed transaction
    error,        \* the exception that ended the run, "" if none
    results,      \* what execute_trade returned, in order
    trace,        \* what the run did, in order (log lines and outgoing requests)
    call,         \* a direct call of a pure function: its name and arguments
    ret           \* what that call returned

vars == <<settings, entry, args, paper, candidates, rc_bulk, pc, k, q_buy,
          sell_sim_ok, token_mint, usd_amount, q, swap_b64, raw_b64, error,
          results, trace, call, ret>>

Mints == {"TokenA", "TokenB"}
Candidate(mint, graduated) == [mint |-> mint, graduated |-> graduated]
\* The candidates a caller's batch is made of: both graduation flags, two mints.
CandidateValues ==
    {Candidate("TokenA", FALSE), Candidate("TokenA", TRUE), Candidate("TokenB", FALSE)}

SeqsUpTo(S, n) == UNION {[1..m -> S] : m \in 0..n}

\* A transaction payload: the swap it was built for and who signed it.
NoTx == [body |-> "", signer |-> ""]
Ev(e, kk, mint, amt, tx) == [ev |-> e, k |-> kk, mint |-> mint, amt |-> amt, tx |-> tx]
Log(e, kk, mint, amt) == Ev(e, kk, mint, amt, NoTx)

\* No pure function is being called directly.
NoCall == [fn |-> ""]

\* The state of a run before it called anything, but for the settings.
Fresh ==
    /\ entry = ""
    /\ args = [paper |-> FALSE, live |-> FALSE]
    /\ paper = TRUE
    /\ candidates = <<>>
    /\ rc_bulk = EmptyDict
    /\ k = 0
    /\ q_buy = None
    /\ sell_sim_ok = FALSE
    /\ token_mint = ""
    /\ usd_amount = 0
    /\ q = None
    /\ swap_b64 = ""
    /\ raw_b64 = NoTx
    /\ error = ""
    /\ results = <<>>
    /\ trace = <<>>
    /\ ret = None

Init ==
    /\ settings \in [WALLET_PRIVATE_KEY : {Unset, "secret"},
                     WALLET_PUBLIC_KEY : {"pubkey"},
                     RUGCHECK_API_KEY : {Unset, "rckey"},
                     PUMPPORTAL_BASE : {Unset, "https://pp"}]
    /\ call = NoCall
    /\ pc = "start"
    /\ Fresh

\* The locals of one iteration, as they are when the iteration starts.
IterationLocals == <<q_buy, sell_sim_ok, token_mint, usd_amount, q, swap_b64, raw_b64>>
ResetLocals ==
    /\ q_buy' = None
    /\ sell_sim_ok' = FALSE
    /\ token_mint' = ""
    /\ usd_amount' = 0
    /\ q' = None
    /\ swap_b64' = ""
    /\ raw_b64' = NoTx

\* An exception nothing catches: it leaves process_candidates, run and asyncio.run.
Fail(e) ==
    /\ pc' = "failed"
    /\ error' = e

\* continue / the end of the loop body: the next candidate, or the return.
NextIteration ==
    /\ k' = k + 1
    /\ pc' = IF k < Len(candidates) THEN "filter" ELSE "done"
    /\ ResetLocals

(***************************************************************************)
(* src/main.py                                                             *)
(***************************************************************************)
\* Mutant of PaperMode: the live flag wins over the paper flag.
PaperMode_LiveFlagWins(a) == ~a.live

\* paper = True if args.paper or not args.live else False
PaperMode(a) == IF a.paper \/ ~a.live THEN TRUE ELSE FALSE

Main ==
    /\ pc = "start"
    /\ \E a \in [paper : BOOLEAN, live : BOOLEAN] :
        /\ args' = a
        /\ paper' = PaperMode(a)
    /\ entry' = "main"
    /\ pc' = "collect_pp"
    /\ UNCHANGED <<call, ret, settings, candidates, rc_bulk, k, IterationLocals, error, results, trace>>

\* process_candidates(candidates, paper=...) called by another module or a test.
DirectCall ==
    /\ pc = "start"
    /\ entry' = "direct"
    /\ candidates' \in SeqsUpTo(CandidateValues, MaxCands)
    /\ paper' \in BOOLEAN
    /\ pc' = "process"
    /\ UNCHANGED <<call, ret, settings, args, rc_bulk, k, IterationLocals, error, results, trace>>

\* The notionals execute_trade is called with by a caller other than the pipeline.
Notionals == {0, TEST_BUY_USD, MAX_POSITION_USD}

\* execute_trade(token_mint, usd_amount) called by another module or a test.
DirectExecute ==
    /\ pc = "start"
    /\ entry' = "execute"
    /\ token_mint' \in Mints
    /\ usd_amount' \in Notionals
    /\ pc' = "exec_key"
    /\ trace' = Append(trace, Log("execute_trade", 0, token_mint', usd_amount'))
    /\ UNCHANGED <<call, ret, settings, args, paper, candidates, rc_bulk, k, q_buy, sell_sim_ok,
                   q, swap_b64, raw_b64, error, results>>

(***************************************************************************)
(* src/providers/pumpportal.py, src/providers/bitquery.py and              *)
(* collect_candidates of src/engine.py                                     *)
(***************************************************************************)
\* The items of a /tokens/recent response.
PPItems ==
    {[mint |-> "TokenA"],
     [address |-> "TokenB", graduated |-> TRUE],
     [symbol |-> "NOMINT"]}
PPResponses ==
    {[net |-> "ConnectError", status |-> 0, parses |-> FALSE, data |-> <<>>],
     [net |-> "ok", status |-> 503, parses |-> FALSE, data |-> <<>>],
     [net |-> "ok", status |-> 200, parses |-> FALSE, data |-> <<>>]}
    \cup {[net |-> "ok", status |-> 200, parses |-> TRUE, data |-> d] :
            d \in SeqsUpTo(PPItems, MaxCands)}

\* item.get("mint") or item.get("address")
ItemMint(item) ==
    IF DictGet(item, "mint", "") # "" THEN item.mint ELSE DictGet(item, "address", "")

RECURSIVE ParseItems(_)
\* The loop over data[:10]: an item without a mint is skipped.
ParseItems(data) ==
    IF data = <<>> THEN <<>>
    ELSE IF ItemMint(Head(data)) = "" THEN ParseItems(Tail(data))
    ELSE <<Candidate(ItemMint(Head(data)), DictGet(Head(data), "graduated", FALSE))>>
         \o ParseItems(Tail(data))

\* pumpportal.fetch_candidates: every failure is caught and gives [].
fetch_from_pp(base, resp) ==
    IF base = Unset THEN <<>>
    ELSE IF resp.net # "ok" THEN <<>>
    ELSE IF resp.status # 200 THEN <<>>
    ELSE IF ~resp.parses THEN <<>>
    ELSE ParseItems(SubSeq(resp.data, 1, Min(Len(resp.data), PER_CYCLE_LIMIT)))

\* bitquery.fetch_candidates
fetch_from_bq == <<>>

\* Mutant of CollectPPStep: Bitquery is consulted whatever PumpPortal returned.
CollectPPStep_AlwaysFallsThrough(resp) ==
    /\ pc = "collect_pp"
    /\ LET cands == fetch_from_pp(settings.PUMPPORTAL_BASE, resp)
       IN  /\ candidates' = cands
           /\ pc' = "collect_bq"
           /\ trace' = Append(trace, Log("fetch_pp", 0, "", Len(cands)))
    /\ UNCHANGED <<call, ret, settings, entry, args, paper, rc_bulk, k, IterationLocals, error, results>>

\* cands = await fetch_from_pp()
CollectPPStep(resp) ==
    /\ pc = "collect_pp"
    /\ LET cands == fetch_from_pp(settings.PUMPPORTAL_BASE, resp)
       IN  /\ candidates' = cands
           /\ pc' = IF cands = <<>> THEN "collect_bq" ELSE "process"
           /\ trace' = Append(trace, Log("fetch_pp", 0, "", Len(cands)))
    /\ UNCHANGED <<call, ret, settings, entry, args, paper, rc_bulk, k, IterationLocals, error, results>>

CollectPP == \E resp \in PPResponses : CollectPPStep(resp)

\* if not cands: cands = await fetch_from_bq()
CollectBQ ==
    /\ pc = "collect_bq"
    /\ candidates' = fetch_from_bq
    /\ pc' = IF fetch_from_bq = <<>> THEN "collect_stub" ELSE "process"
    /\ trace' = Append(trace, Log("fetch_bq", 0, "", Len(fetch_from_bq)))
    /\ UNCHANGED <<call, ret, settings, entry, args, paper, rc_bulk, k, IterationLocals, error, results>>

\* if not cands: cands = [Candidate(mint="SoMeToKen...")]
CollectStub ==
    /\ pc = "collect_stub"
    /\ candidates' = <<Candidate(STUB_MINT, FALSE)>>
    /\ pc' = "process"
    /\ trace' = Append(trace, Log("stub", 0, "", 1))
    /\ UNCHANGED <<call, ret, settings, entry, args, paper, rc_bulk, k, IterationLocals, error, results>>

(***************************************************************************)
(* src/providers/rugcheck.py                                               *)
(***************************************************************************)
\* The summaries the risk service may give for a mint.
Summaries ==
    {[risk_level |-> "low", flags |-> {}],
     [risk_level |-> "medium"],
     [risk_level |-> "high", flags |-> {}],
     [risk_level |-> "low", flags |-> {"HONEYPOT"}],
     [flags |-> {}]}

MintsOf(cands) == {cands[i].mint : i \in 1..Len(cands)}

\* The bodies of the bulk endpoint: a summary for some of the mints asked for.
BulkBodies(mints) == UNION {[ms -> Summaries] : ms \in SUBSET mints}
BulkResponses(mints) ==
    {[net |-> "ConnectError", status |-> 0, data |-> EmptyDict],
     [net |-> "ok", status |-> 401, data |-> EmptyDict]}
    \cup {[net |-> "ok", status |-> 200, data |-> d] : d \in BulkBodies(mints)}

NoApiKeySummary == [risk_level |-> "high", flags |-> {"no_api_key"}]

\* bulk_summary: without a key every mint is high risk; with one, the
\* transport's exception and raise_for_status's are not caught.
bulk_summary(api_key, mints, resp) ==
    IF api_key = Unset THEN Return([m \in mints |-> NoApiKeySummary])
    ELSE IF resp.net # "ok" THEN Raise(resp.net)
    ELSE IF resp.status >= 400 THEN Raise("HTTPStatusError")
    ELSE Return(resp.data)

(***************************************************************************)
(* process_candidates of src/engine.py                                     *)
(***************************************************************************)
\* Mutant of ProcessEmpty: the summary is requested before the batch is
\* found to be empty.
ProcessEmpty_AsksFirst ==
    /\ pc = "process"
    /\ candidates = <<>>
    /\ pc' = "done"
    /\ trace' = trace \o <<Log("bulk_summary", 0, "", 0), Log("no_candidates", 0, "", 0)>>
    /\ UNCHANGED <<call, ret, settings, entry, args, paper, candidates, rc_bulk, k,
                   IterationLocals, error, results>>

\* if not candidates: log.info("No candidates."); return
ProcessEmpty ==
    /\ pc = "process"
    /\ candidates = <<>>
    /\ pc' = "done"
    /\ trace' = Append(trace, Log("no_candidates", 0, "", 0))
    /\ UNCHANGED <<call, ret, settings, entry, args, paper, candidates, rc_bulk, k,
                   IterationLocals, error, results>>

\* mints = [...]; rc_bulk = await rugcheck.bulk_summary(mints)
BulkSummaryStep(resp) ==
    /\ pc = "process"
    /\ candidates # <<>>
    /\ LET r == bulk_summary(settings.RUGCHECK_API_KEY, MintsOf(candidates), resp)
       IN  IF r.exc # ""
           THEN /\ Fail(r.exc)
                /\ UNCHANGED <<rc_bulk, k>>
           ELSE /\ rc_bulk' = r.value
                /\ k' = 1
                /\ pc' = "filter"
                /\ error' = error
    /\ trace' = Append(trace, Log("bulk_summary", 0, "", Len(candidates)))
    /\ UNCHANGED <<call, ret, settings, entry, args, paper, candidates, IterationLocals, results>>

BulkSummary == \E resp \in BulkResponses(MintsOf(candidates)) : BulkSummaryStep(resp)

\* The hardcoded TokenInfo of the loop body.
StubTokenInfo ==
    [mint_revoked |-> TRUE, freeze_revoked |-> TRUE, top5_pct |-> STUB_TOP5_PCT,
     liquidity_sol |-> STUB_LIQUIDITY_SOL, graduated |-> TRUE, pool_ok |-> TRUE]

\* Mutant of RiskOf: a mint the bulk response omits defaults to low risk.
RiskOf_DefaultLow(bulk, mint) == DictGet(bulk, mint, [risk_level |-> "low"])

\* rc = rc_bulk.get(c.mint, {"risk_level": "high"})
RiskOf(bulk, mint) == DictGet(bulk, mint, [risk_level |-> "high"])

\* The hard filters of candidates[k]: SKIP and continue, or go on to simulate.
HardFilter_MissingContinue ==
    /\ pc = "filter"
    /\ LET c == candidates[k]
           rc == RiskOf(rc_bulk, c.mint)
       IN  /\ trace' = Append(trace, Log(IF ~hard_filters_pass(StubTokenInfo, rc, MAX_TOP5_PCT,
                                                               MIN_LIQ_SOL)
                                         THEN "skip_filter" ELSE "filter_pass", k, c.mint, 0))
           /\ pc' = "sim_buy"
           /\ UNCHANGED <<k, IterationLocals>>
    /\ UNCHANGED <<call, ret, settings, entry, args, paper, candidates, rc_bulk, error, results>>

\* if not hard_filters_pass(...): SKIP, continue
HardFilter ==
    /\ pc = "filter"
    /\ LET c == candidates[k]
           rc == RiskOf(rc_bulk, c.mint)
       IN  IF ~hard_filters_pass(StubTokenInfo, rc, MAX_TOP5_PCT, MIN_LIQ_SOL)
           THEN /\ trace' = Append(trace, Log("skip_filter", k, c.mint, 0))
                /\ NextIteration
           ELSE /\ trace' = Append(trace, Log("filter_pass", k, c.mint, 0))
                /\ pc' = "sim_buy"
                /\ UNCHANGED <<k, IterationLocals>>
    /\ UNCHANGED <<call, ret, settings, entry, args, paper, candidates, rc_bulk, error, results>>

(***************************************************************************)
(* simulate_buy_sell_usd (src/executor.py) and simulate_buy_sell           *)
(* (src/providers/jupiter.py)                                              *)
(***************************************************************************)
\* token_amount = int(q_buy["outAmount"]) if "outAmount" in q_buy else 0
TokenAmount(qb) == IF "outAmount" \in DOMAIN qb THEN PyInt(qb.outAmount) ELSE 0

\* BUY: SOL -> TOKEN.  sell_sim_ok is False when the forward quote is rejected.
SimBuyStep(resp) ==
    /\ pc = "sim_buy"
    /\ LET r == quote(resp)
           rej == IF r.exc # "" THEN r ELSE QuoteRejected(r.value)
       IN  IF rej.exc # ""
           THEN /\ Fail(rej.exc)
                /\ UNCHANGED <<q_buy, sell_sim_ok>>
           ELSE IF rej.value
           THEN /\ sell_sim_ok' = FALSE
                /\ pc' = "decide"
                /\ UNCHANGED <<q_buy, error>>
           ELSE /\ q_buy' = r.value
                /\ pc' = "sim_sell"
                /\ UNCHANGED <<sell_sim_ok, error>>
    /\ trace' = Append(trace, Log("quote_buy", k, candidates[k].mint,
                                  LamportsFor(TEST_BUY_USD)))
    /\ UNCHANGED <<call, ret, settings, entry, args, paper, candidates, rc_bulk, k, token_mint,
                   usd_amount, q, swap_b64, raw_b64, results>>

SimBuy == \E resp \in QuoteResponses : SimBuyStep(resp)

\* Mutant of SimSellStep: the reverse quote's output is not looked at.
SimSellStep_ReverseUnchecked(resp) ==
    /\ pc = "sim_sell"
    /\ LET r == quote(resp)
       IN  IF r.exc # ""
           THEN /\ Fail(r.exc)
                /\ UNCHANGED sell_sim_ok
           ELSE /\ sell_sim_ok' = TRUE
                /\ pc' = "decide"
                /\ error' = error
    /\ trace' = Append(trace, Log("quote_sell", k, candidates[k].mint, TokenAmount(q_buy)))
    /\ UNCHANGED <<call, ret, settings, entry, args, paper, candidates, rc_bulk, k, q_buy,
                   token_mint, usd_amount, q, swap_b64, raw_b64, results>>

\* SELL: TOKEN -> SOL, with the forward quote's outAmount as the input.
SimSellStep(resp) ==
    /\ pc = "sim_sell"
    /\ IF TokenAmount(q_buy) <= 0
       THEN /\ sell_sim_ok' = FALSE
            /\ pc' = "decide"
            /\ UNCHANGED <<error, trace>>
       ELSE /\ LET r == quote(resp)
                   rej == IF r.exc # "" THEN r ELSE QuoteRejected(r.value)
               IN  IF rej.exc # ""
                   THEN /\ Fail(rej.exc)
                        /\ UNCHANGED sell_sim_ok
                   ELSE /\ sell_sim_ok' = ~rej.value
                        /\ pc' = "decide"
                        /\ error' = error
            /\ trace' = Append(trace, Log("quote_sell", k, candidates[k].mint,
                                          TokenAmount(q_buy)))
    /\ UNCHANGED <<call, ret, settings, entry, args, paper, candidates, rc_bulk, k, q_buy,
                   token_mint, usd_amount, q, swap_b64, raw_b64, results>>

SimSell == \E resp \in QuoteResponses : SimSellStep(resp)

\* Mutant of Decide: the denial is logged but the loop body goes on to the buy.
Decide_DenialNotChecked ==
    /\ pc = "decide"
    /\ LET c == candidates[k]
           d == decide(TEST_BUY_USD, MAX_POSITION_USD, StubTokenInfo.graduated,
                       sell_sim_ok)
           decided == Log(IF d.should_test_buy THEN "decision_trade" ELSE "decision_deny",
                          k, c.mint, d.target_usd)
       IN  IF paper
           THEN /\ trace' = trace \o <<decided, Log("paper_buy", k, c.mint, d.target_usd)>>
                /\ NextIteration
           ELSE /\ trace' = trace \o <<decided, Log("execute_trade", k, c.mint, d.target_usd)>>
                /\ token_mint' = c.mint
                /\ usd_amount' = d.target_usd
                /\ pc' = "exec_key"
                /\ UNCHANGED <<k, q_buy, sell_sim_ok, q, swap_b64, raw_b64>>
    /\ UNCHANGED <<call, ret, settings, entry, args, candidates, rc_bulk, paper, error, results>>

\* Mutant of Decide: execute_trade is started but not awaited, the loop goes on.
Decide_NotAwaited ==
    /\ pc = "decide"
    /\ LET c == candidates[k]
           d == decide(TEST_BUY_USD, MAX_POSITION_USD, StubTokenInfo.graduated,
                       sell_sim_ok)
           decided == Log(IF d.should_test_buy THEN "decision_trade" ELSE "decision_deny",
                          k, c.mint, d.target_usd)
           outcome == IF ~d.should_test_buy THEN "skip_denied"
                      ELSE IF paper THEN "paper_buy" ELSE "execute_trade"
       IN  /\ trace' = trace \o <<decided, Log(outcome, k, c.mint, d.target_usd)>>
           /\ NextIteration
    /\ UNCHANGED <<call, ret, settings, entry, args, candidates, rc_bulk, paper, error, results>>

\* decision = decide(...); SKIP when denied; the paper log or execute_trade.
Decide ==
    /\ pc = "decide"
    /\ LET c == candidates[k]
           d == decide(TEST_BUY_USD, MAX_POSITION_USD, StubTokenInfo.graduated,
                       sell_sim_ok)
           decided == Log(IF d.should_test_buy THEN "decision_trade" ELSE "decision_deny",
                          k, c.mint, d.target_usd)
       IN  IF ~d.should_test_buy
           THEN /\ trace' = trace \o <<decided, Log("skip_denied", k, c.mint, d.target_usd)>>
                /\ NextIteration
           ELSE IF paper
           THEN /\ trace' = trace \o <<decided, Log("paper_buy", k, c.mint, d.target_usd)>>
                /\ NextIteration
           ELSE /\ trace' = trace \o <<decided, Log("execute_trade", k, c.mint, d.target_usd)>>
                /\ token_mint' = c.mint
                /\ usd_amount' = d.target_usd
                /\ pc' = "exec_key"
                /\ UNCHANGED <<k, q_buy, sell_sim_ok, q, swap_b64, raw_b64>>
    /\ UNCHANGED <<call, ret, settings, entry, args, candidates, rc_bulk, paper, error, results>>

(***************************************************************************)
(* execute_trade and _jup_swap_build (src/executor.py), load_keypair and   *)
(* rpc_send_raw_tx (src/utils/solana.py)                                   *)
(***************************************************************************)
MissingKeyError == "RuntimeError: WALLET_PRIVATE_KEY missing for live execution"

\* Mutant of ExecCheckKey: the guard reads the public key, which is always set.
ExecCheckKey_PublicKey ==
    /\ pc = "exec_key"
    /\ IF settings.WALLET_PUBLIC_KEY = Unset
       THEN Fail(MissingKeyError)
       ELSE /\ pc' = "exec_quote"
            /\ error' = error
    /\ UNCHANGED <<call, ret, settings, entry, args, paper, candidates, rc_bulk, k,
                   IterationLocals, results, trace>>

\* if not settings.WALLET_PRIVATE_KEY: raise RuntimeError(...)
ExecCheckKey ==
    /\ pc = "exec_key"
    /\ IF settings.WALLET_PRIVATE_KEY = Unset
       THEN Fail(MissingKeyError)
       ELSE /\ pc' = "exec_quote"
            /\ error' = error
    /\ UNCHANGED <<call, ret, settings, entry, args, paper, candidates, rc_bulk, k,
                   IterationLocals, results, trace>>

\* q = await quote(...); raise when it is missing or its outAmount is not positive.
ExecQuote ==
    /\ pc = "exec_quote"
    /\ \E resp \in QuoteResponses :
        LET r == quote(resp)
            rej == IF r.exc # "" THEN r ELSE QuoteRejected(r.value)
        IN  IF rej.exc # ""
            THEN /\ Fail(rej.exc)
                 /\ q' = q
            ELSE IF rej.value
            THEN /\ Fail("RuntimeError: Quote failed or zero outAmount")
                 /\ q' = q
            ELSE /\ q' = r.value
                 /\ pc' = "exec_build"
                 /\ error' = error
    /\ trace' = Append(trace, Log("quote_exec", k, token_mint, LamportsFor(usd_amount)))
    /\ UNCHANGED <<call, ret, settings, entry, args, paper, candidates, rc_bulk, k, q_buy,
                   sell_sim_ok, token_mint, usd_amount, swap_b64, raw_b64, results>>

\* What the swap-build endpoint may do with one POST /v6/swap.
SwapResponses ==
    {[net |-> "TimeoutException", status |-> 0, data |-> EmptyDict],
     [net |-> "ok", status |-> 400, data |-> EmptyDict],
     [net |-> "ok", status |-> 200, data |-> [error |-> "no route"]],
     [net |-> "ok", status |-> 200, data |-> [swapTransaction |-> "dW5zaWduZWQ="]],
     [net |-> "ok", status |-> 200, data |-> [swapTransaction |-> "not-a-transaction"]]}

_jup_swap_build(resp) ==
    IF resp.net # "ok" THEN Raise(resp.net)
    ELSE IF resp.status >= 400 THEN Raise("HTTPStatusError")
    ELSE IF "swapTransaction" \notin DOMAIN resp.data
         THEN Raise("RuntimeError: Jupiter swap error")
    ELSE Return(resp.data.swapTransaction)

\* swap_b64 = await _jup_swap_build(settings.WALLET_PUBLIC_KEY, q)
ExecBuild ==
    /\ pc = "exec_build"
    /\ \E resp \in SwapResponses :
        LET r == _jup_swap_build(resp)
        IN  IF r.exc # ""
            THEN /\ Fail(r.exc)
                 /\ swap_b64' = swap_b64
            ELSE /\ swap_b64' = r.value
                 /\ pc' = "exec_sign"
                 /\ error' = error
    /\ trace' = Append(trace, Log("swap_build", k, token_mint, TokenAmount(q)))
    /\ UNCHANGED <<call, ret, settings, entry, args, paper, candidates, rc_bulk, k, q_buy,
                   sell_sim_ok, token_mint, usd_amount, q, raw_b64, results>>

\* The payloads VersionedTransaction.from_bytes(base64.b64decode(...)) accepts.
Decodable == {"dW5zaWduZWQ="}

\* The transaction as signed by the keypair of pk_str.
Signed(b64, pk_str) == [body |-> b64, signer |-> pk_str]

\* kp = load_keypair(...); decode; vtx.sign([kp]); re-encode.
ExecSign ==
    /\ pc = "exec_sign"
    /\ IF swap_b64 \notin Decodable
       THEN /\ Fail("ValueError")
            /\ UNCHANGED <<raw_b64, trace>>
       ELSE \E signer_ok \in BOOLEAN :
            IF ~signer_ok
            THEN /\ Fail("SignerError")
                 /\ raw_b64' = raw_b64
                 /\ trace' = Append(trace, Ev("sign", k, token_mint, 0, NoTx))
            ELSE /\ raw_b64' = Signed(swap_b64, settings.WALLET_PRIVATE_KEY)
                 /\ pc' = "exec_send"
                 /\ error' = error
                 /\ trace' = Append(trace, Ev("sign", k, token_mint, 0,
                                              Signed(swap_b64, settings.WALLET_PRIVATE_KEY)))
    /\ UNCHANGED <<call, ret, settings, entry, args, paper, candidates, rc_bulk, k, q_buy,
                   sell_sim_ok, token_mint, usd_amount, q, swap_b64, results>>

\* What the RPC node may do with one sendTransaction.
TxIds == {"5igNaTuRe"}
RpcResponses ==
    {[net |-> "ConnectError", status |-> 0, data |-> EmptyDict],
     [net |-> "ok", status |-> 502, data |-> EmptyDict],
     [net |-> "ok", status |-> 200, data |-> [jsonrpc |-> "2.0", error |-> "-32002"]]}
    \cup {[net |-> "ok", status |-> 200, data |-> [jsonrpc |-> "2.0", result |-> t]] :
            t \in TxIds}

rpc_send_raw_tx(resp) ==
    IF resp.net # "ok" THEN Raise(resp.net)
    ELSE IF resp.status >= 400 THEN Raise("HTTPStatusError")
    ELSE Return(resp.data)

\* A Python str, kept apart from a dict.
PyStr(s) == [str |-> s]

\* sig = res.get("result") or res
SignatureOf(res) ==
    IF "result" \in DOMAIN res /\ res.result # "" THEN PyStr(res.result) ELSE res

\* Mutant of ExecSend: a failed broadcast is sent again instead of raising.
ExecSend_RetryOnError ==
    /\ pc = "exec_send"
    /\ \E resp \in RpcResponses :
        LET r == rpc_send_raw_tx(resp)
            sent == Ev("broadcast", k, token_mint, 0, raw_b64)
        IN  IF r.exc # ""
            THEN /\ trace' = Append(trace, sent)
                 /\ UNCHANGED <<pc, error, k, IterationLocals, results>>
            ELSE /\ results' = Append(results, [k |-> k,
                                                signature |-> SignatureOf(r.value),
                                                status |-> "SENT"])
                 /\ error' = error
                 /\ IF entry = "execute"
                    THEN /\ trace' = Append(trace, sent)
                         /\ pc' = "done"
                         /\ UNCHANGED <<k, IterationLocals>>
                    ELSE /\ trace' = trace \o <<sent, Log("live_buy", k, token_mint,
                                                           usd_amount)>>
                         /\ NextIteration
    /\ UNCHANGED <<call, ret, settings, entry, args, paper, candidates, rc_bulk>>

\* res = await rpc_send_raw_tx(raw_b64); return {"signature": sig, "status": "SENT"};
\* back in process_candidates, the LIVE BUY log and the next candidate.
ExecSend ==
    /\ pc = "exec_send"
    /\ \E resp \in RpcResponses :
        LET r == rpc_send_raw_tx(resp)
            sent == Ev("broadcast", k, token_mint, 0, raw_b64)
        IN  IF r.exc # ""
            THEN /\ Fail(r.exc)
                 /\ trace' = Append(trace, sent)
                 /\ UNCHANGED <<k, IterationLocals, results>>
            ELSE /\ results' = Append(results, [k |-> k,
                                                signature |-> SignatureOf(r.value),
                                                status |-> "SENT"])
                 /\ error' = error
                 /\ IF entry = "execute"
                    THEN /\ trace' = Append(trace, sent)
                         /\ pc' = "done"
                         /\ UNCHANGED <<k, IterationLocals>>
                    ELSE /\ trace' = trace \o <<sent, Log("live_buy", k, token_mint,
                                                           usd_amount)>>
                         /\ NextIteration
    /\ UNCHANGED <<call, ret, settings, entry, args, paper, candidates, rc_bulk>>

Next ==
    \/ Main
    \/ DirectCall
    \/ DirectExecute
    \/ CollectPP
    \/ CollectBQ
    \/ CollectStub
    \/ ProcessEmpty
    \/ BulkSummary
    \/ HardFilter
    \/ SimBuy
    \/ SimSell
    \/ Decide
    \/ ExecCheckKey
    \/ ExecQuote
    \/ ExecBuild
    \/ ExecSign
    \/ ExecSend

Spec == Init /\ [][Next]_vars

(***************************************************************************)
(* Reading the trace.                                                      *)
(***************************************************************************)
\* The positions of the trace where candidate i (0: no candidate) did e.
At(e, i) == {j \in 1..Len(trace) : trace[j].ev = e /\ trace[j].k = i}
Did(e, i) == At(e, i) # {}

\* The events of one execute_trade invocation, in the order of its source.
ExecSteps == <<"execute_trade", "quote_exec", "swap_build", "sign", "broadcast">>
ExecEvents == {ExecSteps[n] : n \in 1..Len(ExecSteps)}
StepNo(e) == CHOOSE n \in 1..Len(ExecSteps) : ExecSteps[n] = e
InExecuteTrade == pc \in {"exec_key", "exec_quote", "exec_build", "exec_sign", "exec_send"}

\* Candidate i entered the loop body: its hard filters were evaluated.
Attempted(i) == Did("skip_filter", i) \/ Did("filter_pass", i)
\* The iteration of candidate i ran to its end.
Finished(i) == i < k \/ pc = "done"
\* The run is a cycle of process_candidates, and it has ended.
CycleEnded == entry \in {"main", "direct"} /\ pc \in {"done", "failed"}
LastEvent == trace[Len(trace)]

(***************************************************************************)
(* C1: in one cycle over a batch of N candidates every candidate is        *)
(* attempted: once the loop over the batch has started, the cycle does not *)
(* end before each of the N candidates had its hard filters evaluated,     *)
(* whatever happened to the candidates before it.                          *)
(***************************************************************************)
C1_EveryCandidateAttempted ==
    (CycleEnded /\ k >= 1) => \A i \in 1..Len(candidates) : Attempted(i)

(***************************************************************************)
(* C2: the liquidity simulation returns False and never raises when a      *)
(* leg's quote call times out, hits a transport error, answers with a      *)
(* malformed body or with an output amount that is not positive: every     *)
(* such step of the simulation ends in sell_sim_ok = False at the sizing   *)
(* decision.                                                               *)
(***************************************************************************)
\* The quote responses the claim calls failures.
FailingQuoteResponses ==
    {r \in QuoteResponses :
        \/ r.net # "ok"
        \/ r.status # 200
        \/ ~r.parses
        \/ "outAmount" \notin DOMAIN r.json
        \/ r.json.outAmount \notin IntStrings
        \/ PyInt(r.json.outAmount) <= 0}

C2_SimulationReturnsFalse ==
    [][\A resp \in FailingQuoteResponses :
         (SimBuyStep(resp) \/ SimSellStep(resp))
            => (pc' = "decide" /\ sell_sim_ok' = FALSE)]_vars

(***************************************************************************)
(* C3: without a signing credential execute_trade fails, for every mint    *)
(* and notional, before any quote request, swap build, signing step or     *)
(* broadcast: no such step is ever in the trace, no TradeResult is ever    *)
(* returned, and an invocation that has left its first line has raised the *)
(* missing-key error.                                                      *)
(***************************************************************************)
C3_NoCredentialNoTrade ==
    settings.WALLET_PRIVATE_KEY = Unset =>
        /\ \A j \in 1..Len(trace) :
              trace[j].ev \notin {"quote_exec", "swap_build", "sign", "broadcast", "live_buy"}
        /\ results = <<>>
        /\ pc \notin {"exec_quote", "exec_build", "exec_sign", "exec_send"}
        /\ ((\E j \in 1..Len(trace) : trace[j].ev = "execute_trade") /\ pc # "exec_key")
              => (pc = "failed" /\ error = MissingKeyError)

\* execute_trade was invoked without a credential and has raised.
C3_Witness ==
    /\ settings.WALLET_PRIVATE_KEY = Unset
    /\ pc = "failed"
    /\ error = MissingKeyError
    /\ LastEvent.ev = "execute_trade"
    /\ LastEvent.amt = MAX_POSITION_USD

(***************************************************************************)
(* C4: no swap build, signing or broadcast happens unless live mode was    *)
(* explicitly selected.  From the command line, with no flag, with --paper *)
(* or with --paper and --live, the run is paper; and in a paper run        *)
(* (process_candidates with paper = True) execute_trade is never entered,  *)
(* so an affirmative decision only ever logs.                              *)
(***************************************************************************)
LiveSelected == args.live /\ ~args.paper
PaperRun ==
    \/ entry = "main" /\ ~LiveSelected
    \/ entry = "direct" /\ paper

C4_PaperNeverExecutes ==
    PaperRun =>
        /\ paper
        /\ \A j \in 1..Len(trace) : trace[j].ev \notin ExecEvents \cup {"live_buy"}
        /\ results = <<>>
        /\ ~InExecuteTrade

\* Both flags given: the run is paper, and a candidate's buy was only logged.
C4_Witness ==
    /\ entry = "main"
    /\ args.paper /\ args.live
    /\ pc = "done"
    /\ Did("paper_buy", 1)

(***************************************************************************)
(* C5: in a cycle each candidate gets at most one execute_trade            *)
(* invocation, and within it at most one quote, one swap build, one        *)
(* signing step and one broadcast (nothing is retried), hence at most one  *)
(* TradeResult.                                                            *)
(***************************************************************************)
C5_AtMostOncePerCandidate ==
    \A i \in 0..Len(candidates) :
        /\ \A e \in ExecEvents : Cardinality(At(e, i)) <= 1
        /\ Cardinality({n \in 1..Len(results) : results[n].k = i}) <= 1

\* A live cycle in which two candidates were each signed and broadcast once.
C5_Witness ==
    /\ entry \in {"main", "direct"}
    /\ ~paper
    /\ pc = "done"
    /\ Len(candidates) = 2
    /\ Did("sign", 1) /\ Did("broadcast", 1)
    /\ Did("sign", 2) /\ Did("broadcast", 2)

(***************************************************************************)
(* C6: within one execute_trade invocation the steps happen in the order   *)
(* quote, swap build, sign, broadcast, each right after the step before it *)
(* succeeded: a swap is built only on a quote with a positive outAmount,   *)
(* signing needs the built transaction, and the payload broadcast is the   *)
(* one the preceding step signed with the configured credential.           *)
(***************************************************************************)
C6_StepsInOrder ==
    /\ \A j \in 1..Len(trace) :
          (trace[j].ev \in ExecEvents /\ trace[j].ev # "execute_trade") =>
              /\ j > 1
              /\ trace[j - 1].k = trace[j].k
              /\ trace[j - 1].ev = ExecSteps[StepNo(trace[j].ev) - 1]
    /\ \A j \in 1..Len(trace) :
          /\ trace[j].ev = "swap_build" => trace[j].amt > 0
          /\ trace[j].ev = "broadcast" =>
                /\ trace[j].tx = trace[j - 1].tx
                /\ trace[j].tx.body \in Decodable
                /\ trace[j].tx.signer = settings.WALLET_PRIVATE_KEY
                /\ trace[j].tx.signer # Unset
    /\ pc \in {"exec_build", "exec_sign", "exec_send"} => TokenAmount(q) > 0
    /\ pc \in {"exec_sign", "exec_send"} => swap_b64 # ""
    /\ pc = "exec_send" => raw_b64 = Signed(swap_b64, settings.WALLET_PRIVATE_KEY)

\* An invocation that went all the way to the broadcast.
C6_Witness ==
    /\ trace # <<>>
    /\ LastEvent.ev = "broadcast"
    /\ pc \in {"done", "failed"}

(***************************************************************************)
(* C7: execute_trade reports status SENT only with a non-empty transaction *)
(* identifier that the broadcast endpoint returned; an error answer of the *)
(* endpoint never yields SENT.                                             *)
(***************************************************************************)
C7_SentHasTransactionId ==
    \A n \in 1..Len(results) :
        results[n].status = "SENT" =>
            /\ "str" \in DOMAIN results[n].signature
            /\ results[n].signature.str \in TxIds

(***************************************************************************)
(* C8: in a paper cycle, every candidate whose graduation flag is false    *)
(* and that passed the hard filters gets a paper buy logged at the         *)
(* test-buy size, whatever its liquidity simulation returned.              *)
(***************************************************************************)
C8_PreGraduationPaperBuy ==
    \A i \in 1..Len(candidates) :
        (/\ entry \in {"main", "direct"}
         /\ paper
         /\ ~candidates[i].graduated
         /\ Did("filter_pass", i)
         /\ Finished(i))
        => \E j \in At("paper_buy", i) : trace[j].amt = TEST_BUY_USD

(***************************************************************************)
(* C9: when the bulk risk-summary call fails (the service is unreachable   *)
(* or answers with an error status), the cycle goes on to the hard filters *)
(* with every candidate classified high, instead of failing.               *)
(***************************************************************************)
FailingBulkResponses ==
    {r \in BulkResponses(MintsOf(candidates)) : r.net # "ok" \/ r.status >= 400}

C9_BulkFailureFailsClosed ==
    [][\A resp \in FailingBulkResponses :
         BulkSummaryStep(resp) =>
            /\ pc' = "filter"
            /\ \A m \in MintsOf(candidates) :
                  DictGet(RiskOf(rc_bulk', m), "risk_level", "high") = "high"]_vars

(***************************************************************************)
(* C10: a mint without a classification (no risk-service credential is     *)
(* configured, or the bulk response omits the mint or its risk level) is   *)
(* evaluated as high risk and rejected by the hard filters: its candidate  *)
(* is skipped with no quote, no decision and no buy.                       *)
(***************************************************************************)
Unclassified(m) ==
    \/ settings.RUGCHECK_API_KEY = Unset
    \/ m \notin DOMAIN rc_bulk
    \/ "risk_level" \notin DOMAIN rc_bulk[m]

C10_UnclassifiedRejected ==
    \A i \in 1..Len(candidates) :
        (Attempted(i) /\ Unclassified(candidates[i].mint)) =>
            /\ DictGet(RiskOf(rc_bulk, candidates[i].mint), "risk_level", "high") = "high"
            /\ Did("skip_filter", i)
            /\ \A j \in 1..Len(trace) : trace[j].k = i => trace[j].ev = "skip_filter"

\* The bulk response omitted the first mint, which was skipped, and classified
\* the second, which went on to the simulation.
C10_Witness ==
    /\ settings.RUGCHECK_API_KEY # Unset
    /\ pc = "done"
    /\ Len(candidates) = 2
    /\ candidates[1].mint \notin DOMAIN rc_bulk
    /\ Did("skip_filter", 1)
    /\ Did("filter_pass", 2)

(***************************************************************************)
(* C11: when live mode is selected on the command line and no signing      *)
(* credential is configured, the run refuses to start: it does nothing at  *)
(* all (no discovery, no risk summary, no quote) before it fails with the  *)
(* configuration error.                                                    *)
(***************************************************************************)
C11_LiveWithoutKeyRefusesToStart ==
    (entry = "main" /\ LiveSelected /\ settings.WALLET_PRIVATE_KEY = Unset) =>
        /\ trace = <<>>
        /\ pc \in {"collect_pp", "failed"}
        /\ pc = "failed" => error = MissingKeyError

(***************************************************************************)
(* Direct calls of the pure functions: the arguments are drawn in the      *)
(* initial state and one step applies the function.                        *)
(***************************************************************************)
\* The settings of a run that only calls a pure function: none is read.
PureSettings ==
    [WALLET_PRIVATE_KEY |-> Unset, WALLET_PUBLIC_KEY |-> "pubkey",
     RUGCHECK_API_KEY |-> Unset, PUMPPORTAL_BASE |-> Unset]

SizeValues == 0..MaxSize
DecideCalls ==
    {[fn |-> "decide", test_buy_usd |-> t, max_position_usd |-> m,
      graduated |-> g, sell_sim_ok |-> ok] :
        t \in SizeValues, m \in SizeValues, g \in BOOLEAN, ok \in BOOLEAN}

InitDecide ==
    /\ settings = PureSettings
    /\ call \in DecideCalls
    /\ pc = "call"
    /\ Fresh

\* ret = decide(test_buy_usd, max_position_usd, graduated, sell_sim_ok)
ApplyDecide ==
    /\ pc = "call"
    /\ call.fn = "decide"
    /\ ret' = decide(call.test_buy_usd, call.max_position_usd, call.graduated,
                     call.sell_sim_ok)
    /\ pc' = "returned"
    /\ UNCHANGED <<call, settings, entry, args, paper, candidates, rc_bulk, k,
                   IterationLocals, error, results, trace>>

SpecDecide == InitDecide /\ [][ApplyDecide]_vars

(***************************************************************************)
(* C12: decide equals the reference table: not graduated gives             *)
(* should-trade with the test-buy size, for either simulation outcome;     *)
(* graduated with a successful simulation gives should-trade with the max  *)
(* position size; graduated with a failed simulation gives no trade and    *)
(* target 0.                                                               *)
(***************************************************************************)
DecideTable ==
    [g \in BOOLEAN, ok \in BOOLEAN |->
        CASE g = FALSE /\ ok = FALSE -> <<TRUE, "test">>
          [] g = FALSE /\ ok = TRUE -> <<TRUE, "test">>
          [] g = TRUE /\ ok = TRUE -> <<TRUE, "max">>
          [] g = TRUE /\ ok = FALSE -> <<FALSE, "zero">>]

C12_DecideMatchesTable ==
    (pc = "returned" /\ call.fn = "decide") =>
        LET row == DecideTable[call.graduated, call.sell_sim_ok]
        IN  /\ ret.should_test_buy = row[1]
            /\ ret.target_usd = CASE row[2] = "test" -> call.test_buy_usd
                                  [] row[2] = "max" -> call.max_position_usd
                                  [] row[2] = "zero" -> 0

\* A pre-graduation call whose simulation failed returned the test buy.
C12_Witness ==
    /\ pc = "returned"
    /\ call.fn = "decide"
    /\ ~call.graduated /\ ~call.sell_sim_ok
    /\ call.test_buy_usd = 3 /\ call.max_position_usd = 4
    /\ ret = Decision(TRUE, 3)

(***************************************************************************)
(* Direct calls of hard_filters_pass.                                      *)
(***************************************************************************)
\* The flags a risk summary is made of: the disqualifying ones in several
\* letter cases, and harmless ones.
FlagVocabulary ==
    {"honeypot", "HONEYPOT", "Honeypot", "blacklist", "BlackList",
     "trading_disabled", "Trading_Disabled", "mutable", "MUTABLE", "no_api_key"}
FlagSets == {fs \in SUBSET FlagVocabulary : Cardinality(fs) <= MaxFlags}
RiskLevels == {"low", "medium", "high", "unknown", "LOW"}

\* A summary with or without a risk level, with or without a flag list.
FilterSummaries ==
    {EmptyDict}
    \cup {[risk_level |-> r] : r \in RiskLevels}
    \cup {[flags |-> fs] : fs \in FlagSets}
    \cup {[risk_level |-> r, flags |-> fs] : r \in RiskLevels, fs \in FlagSets}

\* TokenInfo values on both sides of each threshold and at it.
FilterInfos ==
    [mint_revoked : BOOLEAN, freeze_revoked : BOOLEAN,
     top5_pct : {MAX_TOP5_PCT - 1, MAX_TOP5_PCT, MAX_TOP5_PCT + 1},
     liquidity_sol : {MIN_LIQ_SOL - 1, MIN_LIQ_SOL, MIN_LIQ_SOL + 1},
     graduated : BOOLEAN, pool_ok : BOOLEAN]

FilterCalls ==
    {[fn |-> "hard_filters_pass", info |-> i, rc_summary |-> rc,
      max_top5 |-> MAX_TOP5_PCT, min_liq |-> MIN_LIQ_SOL] :
        i \in FilterInfos, rc \in FilterSummaries}

InitFilter ==
    /\ settings = PureSettings
    /\ call \in FilterCalls
    /\ pc = "call"
    /\ Fresh

\* ret = hard_filters_pass(info, rc_summary, max_top5=..., min_liq=...)
ApplyFilter ==
    /\ pc = "call"
    /\ call.fn = "hard_filters_pass"
    /\ ret' = hard_filters_pass(call.info, call.rc_summary, call.max_top5, call.min_liq)
    /\ pc' = "returned"
    /\ UNCHANGED <<call, settings, entry, args, paper, candidates, rc_bulk, k,
                   IterationLocals, error, results, trace>>

SpecFilter == InitFilter /\ [][ApplyFilter]_vars

FilterReturned == pc = "returned" /\ call.fn = "hard_filters_pass"

(***************************************************************************)
(* C13: hard_filters_pass rejects whenever an authority is not revoked, or *)
(* the top-5 concentration exceeds max_top5, or the liquidity is below     *)
(* min_liq, or the classification is not low or medium (high, unknown or   *)
(* missing), whatever the other fields are; and it accepts when both       *)
(* authorities are revoked, the concentration is at most max_top5, the     *)
(* liquidity is at least min_liq, the classification is low or medium and  *)
(* there is no flag.                                                       *)
(***************************************************************************)
HasLevel(rc, levels) == "risk_level" \in DOMAIN rc /\ rc.risk_level \in levels
NoFlags(rc) == "flags" \notin DOMAIN rc \/ rc.flags = {}

C13_HardFilterRules ==
    FilterReturned =>
        LET i == call.info
            rc == call.rc_summary
            rejecting ==
                \/ ~i.mint_revoked
                \/ ~i.freeze_revoked
                \/ i.top5_pct > call.max_top5
                \/ i.liquidity_sol < call.min_liq
                \/ ~HasLevel(rc, {"low", "medium"})
        IN  /\ rejecting => ret = FALSE
            /\ (~rejecting /\ NoFlags(rc)) => ret = TRUE

\* A token exactly at both thresholds, rated medium without flags, is accepted.
C13_Witness ==
    /\ FilterReturned
    /\ call.info.mint_revoked /\ call.info.freeze_revoked
    /\ call.info.top5_pct = call.max_top5
    /\ call.info.liquidity_sol = call.min_liq
    /\ call.rc_summary = [risk_level |-> "medium", flags |-> {}]
    /\ ret = TRUE

(***************************************************************************)
(* C14: hard_filters_pass rejects every summary that carries a flag equal, *)
(* ignoring letter case, to honeypot, blacklist or trading_disabled,       *)
(* whatever the classification and the token attributes are.               *)
(***************************************************************************)
\* The spellings of the vocabulary that differ from a disqualifying flag only
\* in letter case.
Disqualifying ==
    {"honeypot", "HONEYPOT", "Honeypot", "blacklist", "BlackList",
     "trading_disabled", "Trading_Disabled"}

Gathering == pc \in {"collect_pp", "collect_bq", "collect_stub"}
GatherEvents == {"fetch_pp", "fetch_bq", "stub"}
IsEvent(j, e) == j <= Len(trace) /\ trace[j].ev = e

\* How far gathering has got, read from the trace of a command line run.
GatherOrder ==
    entry = "main" =>
        /\ pc # "collect_pp" => IsEvent(1, "fetch_pp")
        /\ \A j \in 1..Len(trace) :
              /\ trace[j].ev = "fetch_pp" => j = 1
              /\ trace[j].ev = "fetch_bq" => (j = 2 /\ trace[1].amt = 0)
              /\ trace[j].ev = "stub" =>
                    (j = 3 /\ IsEvent(2, "fetch_bq") /\ trace[2].amt = 0)
        /\ (IsEvent(1, "fetch_pp") /\ settings.PUMPPORTAL_BASE = Unset) => trace[1].amt = 0
        /\ ~Gathering =>
              /\ candidates # <<>>
              /\ IF trace[1].amt > 0
                 THEN Len(candidates) = trace[1].amt
                 ELSE IsEvent(3, "stub") /\ candidates = <<Candidate(STUB_MINT, FALSE)>>
        /\ pc = "failed" => Did("bulk_summary", 0)

\* The PumpPortal responses that are failures, and those whose items all
\* name a mint.
FailingPPResponses == {r \in PPResponses : r.net # "ok" \/ r.status # 200 \/ ~r.parses}
FullPPResponses ==
    {r \in PPResponses \ FailingPPResponses :
        \A n \in 1..Len(r.data) : DOMAIN r.data[n] \cap {"mint", "address"} # {}}
MintIn(item) == IF "mint" \in DOMAIN item THEN item.mint ELSE item.address

C15_SourcesInOrder ==
    [][/\ GatherOrder'
       /\ \A resp \in FailingPPResponses :
             CollectPPStep(resp) => (candidates' = <<>> /\ pc' = "collect_bq")
       /\ \A resp \in FullPPResponses :
             (CollectPPStep(resp) /\ settings.PUMPPORTAL_BASE # Unset) =>
                /\ Len(candidates') = Len(resp.data)
                /\ \A n \in 1..Len(resp.data) : candidates'[n].mint = MintIn(resp.data[n])]_vars

\* PumpPortal answered with an error status, Bitquery was empty, and the run
\* went on with the placeholder candidate.
C15_Witness ==
    /\ entry = "main"
    /\ settings.PUMPPORTAL_BASE # Unset
    /\ pc = "process"
    /\ Len(trace) = 3
    /\ trace[3].ev = "stub"
    /\ candidates = <<Candidate(STUB_MINT, FALSE)>>

(***************************************************************************)
(* C16: for every candidate the stages run in the order risk filter,       *)
(* liquidity simulation, sizing decision, buy action; a buy action (the    *)
(* paper log or execute_trade) happens for a candidate only after that     *)
(* candidate passed the risk filter and its decision said to trade; a      *)
(* candidate rejected by the risk filter triggers no quote call.           *)
(***************************************************************************)
StageOf(e) ==
    CASE e \in {"skip_filter", "filter_pass"} -> 1
      [] e \in {"quote_buy", "quote_sell"} -> 2
      [] e \in {"decision_trade", "decision_deny"} -> 3
      [] e \in {"skip_denied", "paper_buy", "execute_trade"} -> 4
      [] OTHER -> 5
BuyActions == {"paper_buy", "execute_trade"}
QuoteCalls == {"quote_buy", "quote_sell", "quote_exec"}
Before(e, f, i) == \A j \in At(f, i) : \E h \in At(e, i) : h < j

C16_StagesInOrder ==
    \A i \in 1..Len(candidates) :
        /\ \A h, j \in 1..Len(trace) :
              (h < j /\ trace[h].k = i /\ trace[j].k = i) =>
                  StageOf(trace[h].ev) <= StageOf(trace[j].ev)
        /\ \A e \in {"decision_trade", "decision_deny"} :
              Before("filter_pass", "quote_buy", i) /\ Before("quote_buy", e, i)
        /\ \A b \in BuyActions :
              Before("filter_pass", b, i) /\ Before("decision_trade", b, i)
        /\ Did("decision_deny", i) => \A b \in BuyActions : ~Did(b, i)
        /\ Did("skip_filter", i) => \A e \in QuoteCalls : ~Did(e, i)

\* One candidate was rejected by the filter and a later one went on to
\* execute_trade.
C16_Witness ==
    /\ Len(candidates) = 2
    /\ Did("skip_filter", 1)
    /\ Did("quote_sell", 2)
    /\ Did("execute_trade", 2)

(***************************************************************************)
(* C17: the candidates of a batch are evaluated strictly one at a time:    *)
(* the first stage of candidate i+1 starts only after the last stage of    *)
(* candidate i has finished, so never are two simulations or two           *)
(* execute_trade invocations in flight.                                    *)
(***************************************************************************)
\* The events that end the iteration of a candidate.
LastStages == {"skip_filter", "skip_denied", "paper_buy", "live_buy"}
Started(i) == \E j \in 1..Len(trace) : trace[j].k = i
Ended(i) == \E j \in 1..Len(trace) : trace[j].k = i /\ trace[j].ev \in LastStages
\* A simulation, or an execute_trade invocation, of candidate i has begun
\* and has not returned.
SimInFlight(i) ==
    Did("quote_buy", i) /\ ~Did("decision_trade", i) /\ ~Did("decision_deny", i)
ExecInFlight(i) == Did("execute_trade", i) /\ ~Did("live_buy", i)

C17_OneAtATime ==
    /\ \A i \in 1..Len(candidates) :
          Started(i) =>
              /\ \A h \in 1..(i - 1) : Ended(h)
              /\ \A h, j \in 1..Len(trace) :
                    (trace[h].k \in 1..(i - 1) /\ trace[j].k = i) => h < j
    /\ Cardinality({i \in 1..Len(candidates) : Started(i) /\ ~Ended(i)}) <= 1
    /\ Cardinality({i \in 1..Len(candidates) : SimInFlight(i)}) <= 1
    /\ Cardinality({i \in 1..Len(candidates) : ExecInFlight(i)}) <= 1

\* The first candidate's trade was sent and the second candidate's
\* execute_trade is under way.
C17_Witness ==
    /\ Len(candidates) = 2
    /\ Did("live_buy", 1)
    /\ ExecInFlight(2)
    /\ pc = "exec_send"

(***************************************************************************)
(* C18: simulate_buy_sell returns True exactly when the forward quote      *)
(* exists with a strictly positive output and the reverse quote, requested *)
(* with the forward quote's whole output amount as its input, exists with  *)
(* a strictly positive output; the reverse quote is never requested when   *)
(* the forward leg is missing or not positive.                             *)
(***************************************************************************)
\* The response carries a quote whose output amount is a positive integer.
PositiveQuote(resp) ==
    /\ resp.net = "ok"
    /\ resp.status = 200
    /\ resp.parses
    /\ "outAmount" \in DOMAIN resp.json
    /\ resp.json.outAmount \in IntStrings
    /\ PyInt(resp.json.outAmount) > 0
\* simulate_buy_sell has returned True to process_candidates.
ReturnedTrue == pc = "decide" /\ sell_sim_ok
ReverseRequested == LastEvent.ev = "quote_sell" /\ LastEvent.k = k

C18_BothLegsPositive ==
    [][/\ \A resp \in QuoteResponses :
             SimBuyStep(resp) =>
                /\ ~ReturnedTrue'
                /\ (pc' = "sim_sell") <=> PositiveQuote(resp)
                /\ PositiveQuote(resp) => q_buy' = resp.json
                /\ ~ReverseRequested'
       /\ \A resp \in QuoteResponses :
             SimSellStep(resp) =>
                /\ ReverseRequested'
                /\ LastEvent'.amt = PyInt(q_buy.outAmount)
                /\ LastEvent'.amt > 0
                /\ ReturnedTrue' <=> PositiveQuote(resp)
       /\ (ReturnedTrue' /\ ~ReturnedTrue) => \E resp \in QuoteResponses : SimSellStep(resp)
       /\ \A i \in 1..Len(candidates') :
             Before("quote_buy", "quote_sell", i)']_vars

\* Both legs were quoted with a positive output and the simulation returned
\* True.
C18_Witness ==
    /\ ReturnedTrue
    /\ Len(trace) >= 2
    /\ LastEvent.ev = "quote_sell"
    /\ LastEvent.amt = PyInt(q_buy.outAmount)

(***************************************************************************)
(* C19: in a cycle with a batch that is not empty the bulk summary of the  *)
(* risk service is requested exactly once, for the mints of all the        *)
(* candidates of the batch, and the request has completed before the first *)
(* candidate's risk filter is evaluated; with an empty batch it is not     *)
(* requested at all.                                                       *)
(***************************************************************************)
BulkRequests == At("bulk_summary", 0)
\* process_candidates has got past its first two statements.
PastRequest == entry \in {"main", "direct"} /\ (k >= 1 \/ pc \in {"done", "failed"})

C19_OneBulkRequest ==
    /\ Cardinality(BulkRequests) <= 1
    /\ PastRequest => Cardinality(BulkRequests) = (IF candidates = <<>> THEN 0 ELSE 1)
    /\ \A j \in BulkRequests :
          /\ trace[j].amt = Len(candidates)
          /\ \A h \in 1..Len(trace) : trace[h].k >= 1 => j < h
    /\ \A i \in 1..Len(candidates) : Attempted(i) => BulkRequests # {}
    /\ (k >= 1 /\ entry # "execute" /\ settings.RUGCHECK_API_KEY = Unset) =>
          DOMAIN rc_bulk = MintsOf(candidates)
    /\ (k >= 1 /\ entry # "execute") => DOMAIN rc_bulk \subseteq MintsOf(candidates)

\* A batch of two was processed to its end after one request.
C19_Witness ==
    /\ pc = "done"
    /\ Len(candidates) = 2
    /\ Attempted(1) /\ Attempted(2)
    /\ Cardinality(BulkRequests) = 1

(***************************************************************************)
(* Runs of the pipeline together with direct calls of decide.              *)
(***************************************************************************)
SpecSizing == (Init \/ InitDecide) /\ [][Next \/ ApplyDecide]_vars

(***************************************************************************)
(* C20: whenever a buy action is issued for a candidate (the paper log or  *)
(* execute_trade), its target notional is one of the two configured sizes, *)
(* the test-buy size or the max position size, and never the zero target   *)
(* of a denied decision; with positive configured sizes, should-trade is   *)
(* false exactly when the target is 0.                                     *)
(***************************************************************************)
ConfiguredSizes == {TEST_BUY_USD, MAX_POSITION_USD}

C20_BuyTargetIsConfiguredSize ==
    /\ \A j \in 1..Len(trace) :
          (trace[j].ev \in BuyActions /\ trace[j].k >= 1) =>
              /\ trace[j].amt \in ConfiguredSizes
              /\ trace[j].amt # 0
              /\ j > 1
              /\ trace[j - 1] = [trace[j] EXCEPT !.ev = "decision_trade"]
    /\ \A j \in 1..Len(trace) :
          /\ trace[j].ev = "decision_deny" => trace[j].amt = 0
          /\ trace[j].ev = "decision_trade" => trace[j].amt # 0
    /\ (InExecuteTrade /\ entry # "execute") => usd_amount \in ConfiguredSizes \ {0}
    /\ (pc = "returned" /\ call.fn = "decide") =>
          /\ (call.test_buy_usd > 0 /\ call.max_position_usd > 0) =>
                (~ret.should_test_buy <=> ret.target_usd = 0)
          /\ ret.should_test_buy =>
                ret.target_usd \in {call.test_buy_usd, call.max_position_usd}

\* execute_trade was called for a candidate with the max position size.
C20_Witness ==
    /\ entry \in {"main", "direct"}
    /\ pc = "exec_key"
    /\ LastEvent.ev = "execute_trade"
    /\ LastEvent.k = k
    /\ usd_amount = MAX_POSITION_USD

====
